---- MODULE Spec2Model ----
(***************************************************************************)
(* Model of example/liquid/index.js: a ProseMirror editor whose inline     *)
(* atom node "liquid" is edited through a nested editor (LiquidView), and  *)
(* the arrow-key commands that step over such a node.                      *)
(*                                                                         *)
(* A document is the flat token sequence ProseMirror positions index: an   *)
(* opening and a closing token for each non-leaf node, one token for each  *)
(* leaf node and for each character.  Position p lies between token p and  *)
(* token p+1.  The outer document is  P( inline* )P HR : one paragraph     *)
(* followed by a horizontal rule; the tokens of the top node itself are    *)
(* not part of its position space, as in ProseMirror.  Inline content is   *)
(* a character, an image (the leaf token IMG) or a liquid node L( text* )L.*)
(***************************************************************************)
EXTENDS Integers, Sequences, FiniteSets, TLC

(* ---- bounds of the model ---- *)
MaxDoc == 9       \* largest outer document, in tokens
MaxInner == 3     \* longest content of a liquid node an edit may produce
MaxText == 1      \* most characters of paragraph text outside liquid nodes
MaxChain == 3     \* most outer dispatches followed within one handler call

InnerChars == {"a", "b"}
OuterChars == {"x"}
Chars == InnerChars \cup OuterChars

NoPos == -1       \* JavaScript null, for a position that does not exist

(* ---- sequences ---- *)
Min(a, b) == IF a < b THEN a ELSE b
Max(a, b) == IF a > b THEN a ELSE b

Strings(S, n) == UNION {[1..m -> S] : m \in 0..n}

\* Node.slice(from, to) / Fragment.cut on a run of text: the tokens in
\* [from, to), the range clamped to the text as String.slice clamps it
Slice(seq, from, to) == SubSeq(seq, Max(from, 0) + 1, Min(to, Len(seq)))

(* ---- nodes ---- *)
\* the liquid node type of liquidSpec: inline, atom, content text*, no attributes
LiquidType == "liquid"

Node(type, content) == [type |-> type, content |-> content]

\* Node.nodeSize: a non-leaf node is its content and its two boundary tokens
nodeSize(node) == Len(node.content) + 2

\* Node.sameMarkup: same type, attributes and marks (liquid has no attributes)
sameMarkup(a, b) == a.type = b.type

(* ---- the outer document ---- *)
Count(doc, tok, upto) == Cardinality({i \in 1..upto : doc[i] = tok})

\* nesting depth inside liquid nodes after the first i tokens
Depth(doc, i) == Count(doc, "L(", i) - Count(doc, ")L", i)

\* the schema's content expressions: doc = paragraph hr, paragraph = inline*
\* (text, image, liquid), liquid = text*
WellFormed(doc) ==
    /\ Len(doc) >= 3
    /\ doc[1] = "P("
    /\ doc[Len(doc) - 1] = ")P"
    /\ doc[Len(doc)] = "HR"
    /\ \A i \in 2..(Len(doc) - 2) :
          /\ doc[i] \in Chars \cup {"L(", ")L", "IMG"}
          /\ Depth(doc, i) \in {0, 1}
          /\ doc[i] = "IMG" => Depth(doc, i) = 0
          /\ doc[i] = "L(" => Depth(doc, i - 1) = 0
          /\ doc[i] = ")L" => Depth(doc, i - 1) = 1
    /\ Depth(doc, Len(doc)) = 0

\* positions at which a liquid node starts, in document order
LiquidStarts(doc) == {p \in 0..(Len(doc) - 1) : doc[p + 1] = "L("}

\* position of the k-th liquid node: what the view's getPos closure returns
\* for the k-th node view
PosOf(doc, k) ==
    CHOOSE p \in LiquidStarts(doc) :
        Cardinality({q \in LiquidStarts(doc) : q < p}) = k - 1

\* position just before the closing token of the liquid node starting at p
CloseOf(doc, p) ==
    CHOOSE q \in (p + 1)..(Len(doc) - 1) :
        /\ doc[q + 1] = ")L"
        /\ \A r \in (p + 1)..(q - 1) : doc[r + 1] # ")L"

\* doc.nodeAt(p) for a liquid node starting at p
NodeAt(doc, p) == Node(LiquidType, Slice(doc, p + 1, CloseOf(doc, p)))

NumLiquid(doc) == Cardinality(LiquidStarts(doc))

\* characters of paragraph text that lie outside every liquid node
TextOutside(doc) ==
    Cardinality({i \in 1..Len(doc) : doc[i] \in Chars /\ Depth(doc, i) = 0})

(* ---- steps and position mapping (prosemirror-transform) ---- *)
\* ReplaceStep(from, to, slice) with a flat slice of tokens
Step(from, to, slice) == [from |-> from, to |-> to, slice |-> slice]

\* StepMap.map(pos, assoc) for the single range [start, oldSize, newSize]
MapRange(start, oldSize, newSize, pos, assoc) ==
    LET end == start + oldSize
    IN  IF start > pos THEN pos
        ELSE IF pos <= end
             THEN LET side == IF oldSize = 0 THEN assoc
                              ELSE IF pos = start THEN -1
                              ELSE IF pos = end THEN 1
                              ELSE assoc
                  IN  start + (IF side < 0 THEN 0 ELSE newSize)
             ELSE pos + (newSize - oldSize)

\* ReplaceStep.getMap().map(pos, assoc)
MapThroughStep(s, pos, assoc) ==
    MapRange(s.from, s.to - s.from, Len(s.slice), pos, assoc)

\* Mapping.map(pos, assoc) through the maps of the steps, in order
RECURSIVE MapThroughSteps(_, _, _)
MapThroughSteps(steps, pos, assoc) ==
    IF steps = <<>> THEN pos
    ELSE MapThroughSteps(Tail(steps), MapThroughStep(Head(steps), pos, assoc), assoc)

\* StepMap.offset(n).map(pos, assoc): the map of inserting n tokens at 0
OffsetMap(n, pos, assoc) ==
    IF n = 0 THEN pos ELSE MapRange(0, 0, n, pos, assoc)

\* variant of MapStep: the mapped end is not clamped to the mapped start
MapStepUnclamped(s, n) ==
    Step(OffsetMap(n, s.from, 1), OffsetMap(n, s.to, -1), s.slice)

\* ReplaceStep.map(mapping) with mapping = StepMap.offset(n): from is mapped
\* with assoc 1, to with assoc -1 and clamped to from
MapStep(s, n) ==
    LET from == OffsetMap(n, s.from, 1)
        to == OffsetMap(n, s.to, -1)
    IN  Step(from, Max(from, to), s.slice)

\* what a content expression admits: the outer document's structure, or
\* text only inside a liquid node
ValidContent(seq, outer) ==
    IF outer THEN WellFormed(seq) ELSE \A i \in 1..Len(seq) : seq[i] \in Chars

\* ReplaceStep.apply: fails on a range outside the document or on a result
\* the schema does not admit
StepApplies(seq, s, outer) ==
    /\ 0 <= s.from
    /\ s.from <= s.to
    /\ s.to <= Len(seq)
    /\ ValidContent(SubSeq(seq, 1, s.from) \o s.slice
                      \o SubSeq(seq, s.to + 1, Len(seq)), outer)

ApplyStep(seq, s) ==
    SubSeq(seq, 1, s.from) \o s.slice \o SubSeq(seq, s.to + 1, Len(seq))

\* Transform.step for each step in order; ok is FALSE when a step throws
RECURSIVE ApplySteps(_, _, _)
ApplySteps(seq, steps, outer) ==
    IF steps = <<>> THEN [ok |-> TRUE, doc |-> seq]
    ELSE IF ~StepApplies(seq, Head(steps), outer) THEN [ok |-> FALSE, doc |-> seq]
    ELSE ApplySteps(ApplyStep(seq, Head(steps)), Tail(steps), outer)

\* Transform.replace(from, to, slice): replaceStep yields no step for an
\* empty range replaced by an empty slice
TrReplace(from, to, slice) ==
    IF from = to /\ slice = <<>> THEN <<>> ELSE <<Step(from, to, slice)>>

(* ---- selections (prosemirror-state) ---- *)
Sel(anchor, head) == [anchor |-> anchor, head |-> head]
NoSel == Sel(NoPos, NoPos)

SelFrom(sel) == Min(sel.anchor, sel.head)
SelTo(sel) == Max(sel.anchor, sel.head)
SelEmpty(sel) == sel.anchor = sel.head

\* Selection.map(doc, mapping): both ends mapped with the default assoc 1
MapSel(sel, steps) ==
    Sel(MapThroughSteps(steps, sel.anchor, 1), MapThroughSteps(steps, sel.head, 1))

(* ---- transactions ---- *)
\* steps: the ReplaceSteps; sel: the selection set with setSelection before the
\* steps were added, or NoSel; fromOutside: the 'fromOutside' meta;
\* scroll: scrollIntoView() was called
Tr(steps, sel, fromOutside, scroll) ==
    [steps |-> steps, sel |-> sel, fromOutside |-> fromOutside, scroll |-> scroll]

\* Transaction.selection: the selection set, or else the old one, mapped
\* through the steps that follow
TrSelection(tr, oldSel) ==
    MapSel(IF tr.sel = NoSel THEN oldSel ELSE tr.sel, tr.steps)

\* variant of docChanged: a transaction without steps counts as a change
docChangedAlways(tr) == TRUE

\* Transform.docChanged
docChanged(tr) == Len(tr.steps) > 0

\* variant of getMeta: the meta is looked up under a key that was never set
getMetaOtherKey(tr, key) == FALSE

\* Transaction.getMeta(key): only 'fromOutside' is ever set
getMeta(tr, key) == IF key = "fromOutside" THEN tr.fromOutside ELSE FALSE

(* ---- content diffing (prosemirror-model Fragment) ---- *)
\* length of the longest common prefix / suffix of two runs of text
CommonPrefix(a, b) ==
    CHOOSE n \in 0..Min(Len(a), Len(b)) :
        /\ \A i \in 1..n : a[i] = b[i]
        /\ n = Min(Len(a), Len(b)) \/ a[n + 1] # b[n + 1]

CommonSuffix(a, b) ==
    CHOOSE n \in 0..Min(Len(a), Len(b)) :
        /\ \A i \in 0..(n - 1) : a[Len(a) - i] = b[Len(b) - i]
        /\ n = Min(Len(a), Len(b)) \/ a[Len(a) - n] # b[Len(b) - n]

\* Fragment.findDiffStart: null when the contents are equal, else the first
\* position at which they differ
findDiffStart(a, b) == IF a = b THEN NoPos ELSE CommonPrefix(a, b)

\* variant of findDiffEnd: the two end positions are taken for each other
findDiffEndSwapped(a, b) ==
    IF a = b THEN [a |-> NoPos, b |-> NoPos]
    ELSE [a |-> Len(b) - CommonSuffix(a, b), b |-> Len(a) - CommonSuffix(a, b)]

\* Fragment.findDiffEnd: null when equal, else the end positions, one in each
\* content, from which the two are the same
findDiffEnd(a, b) ==
    IF a = b THEN [a |-> NoPos, b |-> NoPos]
    ELSE [a |-> Len(a) - CommonSuffix(a, b), b |-> Len(b) - CommonSuffix(a, b)]

\* variant of OverlapCorrection: the ends are left as findDiffEnd gave them
NoOverlapCorrection(start, end) == end

\* update: overlap = start - Math.min(endA, endB);
\*         if (overlap > 0) { endA += overlap; endB += overlap }
OverlapCorrection(start, end) ==
    LET overlap == start - Min(end.a, end.b)
    IN  IF overlap > 0 THEN [a |-> end.a + overlap, b |-> end.b + overlap]
        ELSE end

(* ---- the state ---- *)
VARIABLES
    outerDoc,   \* outerView.state.doc, as tokens
    outerSel,   \* outerView.state.selection
    views,      \* the LiquidView of each liquid node, in document order
    last        \* the handler call that has just returned: what it was, what it
                \* returned and the calls it made; Idle between calls

vars == <<outerDoc, outerSel, views, last>>

\* a LiquidView: this.node, and innerView.state's doc and selection
View(node, doc, sel) == [node |-> node, doc |-> doc, sel |-> sel]

\* an entry of the call log of one handler
\*   kind "inner":  dispatchInner applied tr to inner editor k (flag: fromOutside)
\*   kind "outer":  outerView.dispatch applied a transaction (flag: scrollIntoView)
\*   kind "update": update(node) ran on view k; diff = <<start, endA, endB>>, or
\*                  <<>> when findDiffStart returned null
\*   kind "create": the constructor ran for view k
Ev(kind, k, steps, flag, diff) ==
    [kind |-> kind, k |-> k, steps |-> steps, flag |-> flag, diff |-> diff]

\* the log entry of an update(node) that returned false on view k, with the
\* view as the call left it: this.node, the inner document and selection
Refused(k, view) ==
    [kind |-> "refused", k |-> k, steps |-> <<>>, flag |-> FALSE, diff |-> <<>>,
     view |-> view]

\* the editors while one handler runs: the state, the log of the calls made,
\* the value returned by the last update or key handler, whether a call threw,
\* and the number of outer dispatches made
World(doc, sel, vs) ==
    [outerDoc |-> doc, outerSel |-> sel, views |-> vs, log |-> <<>>,
     ret |-> "none", threw |-> FALSE, dispatches |-> 0]

\* variant of getPos: the position of the first liquid node, whichever view asks
getPosFirst(w, k) == PosOf(w.outerDoc, 1)

\* this.getPos(): where the view's node now starts in the outer document
getPos(w, k) == PosOf(w.outerDoc, k)

\* variant of length: only one of the two boundary tokens is taken off
lengthOffByOne(view) == nodeSize(view.node) - 1

\* get length() { return this.node.nodeSize - 2 }
length(view) == nodeSize(view.node) - 2

\* whether the node starting at p is still there after the steps: a step whose
\* range covers the whole node removes it
RECURSIVE Survives(_, _, _)
Survives(doc, steps, p) ==
    IF steps = <<>> THEN TRUE
    ELSE LET s == Head(steps)
         IN  IF s.from <= p /\ p + nodeSize(NodeAt(doc, p)) <= s.to THEN FALSE
             ELSE Survives(ApplyStep(doc, s), Tail(steps), MapThroughStep(s, p, 1))

\* the views the outer view keeps across a transaction (the others are destroyed)
Survivors(doc, steps, vs) ==
    LET keep == {k \in 1..Len(vs) : Survives(doc, steps, PosOf(doc, k))}
        nth(j) == CHOOSE k \in keep : Cardinality({i \in keep : i < k}) = j - 1
    IN  [j \in 1..Cardinality(keep) |-> vs[nth(j)]]

RECURSIVE dispatchInner(_, _, _), update(_, _, _), construct(_, _, _),
          updateViews(_, _), outerDispatch(_, _)

\* variant of dispatchInner: the offset is getPos(), without the + 1 that
\* steps over the node's opening token
dispatchInnerAtNodeStart(w, k, tr) ==
    LET view == w.views[k]
        applied == ApplySteps(view.doc.content, tr.steps, FALSE)
        transactions == <<tr>>
    IN  IF ~applied.ok THEN [w EXCEPT !.threw = TRUE]
        ELSE
        LET w1 == [w EXCEPT !.views[k].doc.content = applied.doc,
                            !.views[k].sel = TrSelection(tr, view.sel),
                            !.log = Append(@, Ev("inner", k, tr.steps,
                                                 tr.fromOutside, <<>>))]
        IN  IF ~getMeta(tr, "fromOutside")
            THEN LET offset == getPos(w1, k)
                     steps == transactions[1].steps
                     outerTr == Tr([j \in 1..Len(steps) |-> MapStep(steps[j], offset)],
                                   NoSel, FALSE, FALSE)
                 IN  IF docChanged(outerTr) THEN outerDispatch(w1, outerTr) ELSE w1
            ELSE w1

\* variant of dispatchInner: the outer transaction is dispatched before the
\* inner state is updated
dispatchInnerOuterFirst(w, k, tr) ==
    LET transactions == <<tr>>
        w0 == IF ~getMeta(tr, "fromOutside")
              THEN LET offset == getPos(w, k) + 1
                       steps == transactions[1].steps
                       outerTr == Tr([j \in 1..Len(steps) |-> MapStep(steps[j], offset)],
                                     NoSel, FALSE, FALSE)
                   IN  IF docChanged(outerTr) THEN outerDispatch(w, outerTr) ELSE w
              ELSE w
    IN  IF w0.threw \/ k > Len(w0.views) THEN [w0 EXCEPT !.threw = TRUE]
        ELSE
        LET view == w0.views[k]
            applied == ApplySteps(view.doc.content, tr.steps, FALSE)
        IN  IF ~applied.ok THEN [w0 EXCEPT !.threw = TRUE]
            ELSE [w0 EXCEPT !.views[k].doc.content = applied.doc,
                            !.views[k].sel = TrSelection(tr, view.sel),
                            !.log = Append(@, Ev("inner", k, tr.steps,
                                                 tr.fromOutside, <<>>))]

\* variant of dispatchInner: the steps of a transaction are taken last to first
dispatchInnerReversed(w, k, tr) ==
    LET view == w.views[k]
        applied == ApplySteps(view.doc.content, tr.steps, FALSE)
        transactions == <<tr>>
    IN  IF ~applied.ok THEN [w EXCEPT !.threw = TRUE]
        ELSE
        LET w1 == [w EXCEPT !.views[k].doc.content = applied.doc,
                            !.views[k].sel = TrSelection(tr, view.sel),
                            !.log = Append(@, Ev("inner", k, tr.steps,
                                                 tr.fromOutside, <<>>))]
        IN  IF ~getMeta(tr, "fromOutside")
            THEN LET offset == getPos(w1, k) + 1
                     steps == transactions[1].steps
                     outerTr == Tr([j \in 1..Len(steps) |->
                                       MapStep(steps[Len(steps) + 1 - j], offset)],
                                   NoSel, FALSE, FALSE)
                 IN  IF docChanged(outerTr) THEN outerDispatch(w1, outerTr) ELSE w1
            ELSE w1

\* LiquidView.dispatchInner(tr)
dispatchInner(w, k, tr) ==
    LET view == w.views[k]
        applied == ApplySteps(view.doc.content, tr.steps, FALSE)
        transactions == <<tr>>
    IN  IF ~applied.ok THEN [w EXCEPT !.threw = TRUE]
        ELSE
        LET w1 == [w EXCEPT !.views[k].doc.content = applied.doc,
                            !.views[k].sel = TrSelection(tr, view.sel),
                            !.log = Append(@, Ev("inner", k, tr.steps,
                                                 tr.fromOutside, <<>>))]
        IN  IF ~getMeta(tr, "fromOutside")
            THEN LET offset == getPos(w1, k) + 1
                     steps == transactions[1].steps
                     outerTr == Tr([j \in 1..Len(steps) |-> MapStep(steps[j], offset)],
                                   NoSel, FALSE, FALSE)
                 IN  IF docChanged(outerTr) THEN outerDispatch(w1, outerTr) ELSE w1
            ELSE w1

\* variant of update: the markup of the new node is not looked at
updateAnyMarkup(w, k, node) ==
    LET w1 == [w EXCEPT !.views[k].node = node]
        state == w1.views[k]
        start == findDiffStart(node.content, state.doc.content)
    IN  IF start # NoPos
        THEN LET end == OverlapCorrection(start,
                            findDiffEnd(node.content, state.doc.content))
                 w2 == [w1 EXCEPT !.log = Append(@, Ev("update", k, <<>>, FALSE,
                                                       <<start, end.a, end.b>>))]
                 w3 == dispatchInner(w2, k,
                           Tr(TrReplace(start, end.b, Slice(node.content, start, end.a)),
                              NoSel, TRUE, FALSE))
             IN  IF w3.threw THEN w3 ELSE [w3 EXCEPT !.ret = "true"]
        ELSE [w1 EXCEPT !.ret = "true",
                        !.log = Append(@, Ev("update", k, <<>>, FALSE, <<>>))]

\* variant of update: the transaction is dispatched without the 'fromOutside'
\* meta
updateUntagged(w, k, node) ==
    IF ~sameMarkup(node, w.views[k].node) THEN [w EXCEPT !.ret = "false"]
    ELSE
    LET w1 == [w EXCEPT !.views[k].node = node]
        state == w1.views[k]
        start == findDiffStart(node.content, state.doc.content)
    IN  IF start # NoPos
        THEN LET end == OverlapCorrection(start,
                            findDiffEnd(node.content, state.doc.content))
                 w2 == [w1 EXCEPT !.log = Append(@, Ev("update", k, <<>>, FALSE,
                                                       <<start, end.a, end.b>>))]
                 w3 == dispatchInner(w2, k,
                           Tr(TrReplace(start, end.b, Slice(node.content, start, end.a)),
                              NoSel, FALSE, FALSE))
             IN  IF w3.threw THEN w3 ELSE [w3 EXCEPT !.ret = "true"]
        ELSE [w1 EXCEPT !.ret = "true",
                        !.log = Append(@, Ev("update", k, <<>>, FALSE, <<>>))]

\* variant of update: this.node keeps the node it had
updateNoRebind(w, k, node) ==
    IF ~sameMarkup(node, w.views[k].node) THEN [w EXCEPT !.ret = "false"]
    ELSE
    LET w1 == w
        state == w1.views[k]
        start == findDiffStart(node.content, state.doc.content)
    IN  IF start # NoPos
        THEN LET end == OverlapCorrection(start,
                            findDiffEnd(node.content, state.doc.content))
                 w2 == [w1 EXCEPT !.log = Append(@, Ev("update", k, <<>>, FALSE,
                                                       <<start, end.a, end.b>>))]
                 w3 == dispatchInner(w2, k,
                           Tr(TrReplace(start, end.b, Slice(node.content, start, end.a)),
                              NoSel, TRUE, FALSE))
             IN  IF w3.threw THEN w3 ELSE [w3 EXCEPT !.ret = "true"]
        ELSE [w1 EXCEPT !.ret = "true",
                        !.log = Append(@, Ev("update", k, <<>>, FALSE, <<>>))]

\* LiquidView.update(node)
update(w, k, node) ==
    IF ~sameMarkup(node, w.views[k].node) THEN [w EXCEPT !.ret = "false"]
    ELSE
    LET w1 == [w EXCEPT !.views[k].node = node]
        state == w1.views[k]
        start == findDiffStart(node.content, state.doc.content)
    IN  IF start # NoPos
        THEN LET end == OverlapCorrection(start,
                            findDiffEnd(node.content, state.doc.content))
                 w2 == [w1 EXCEPT !.log = Append(@, Ev("update", k, <<>>, FALSE,
                                                       <<start, end.a, end.b>>))]
                 w3 == dispatchInner(w2, k,
                           Tr(TrReplace(start, end.b, Slice(node.content, start, end.a)),
                              NoSel, TRUE, FALSE))
             IN  IF w3.threw THEN w3 ELSE [w3 EXCEPT !.ret = "true"]
        ELSE [w1 EXCEPT !.ret = "true",
                        !.log = Append(@, Ev("update", k, <<>>, FALSE, <<>>))]

\* what the outer view notes when update has returned on view k: a refusal,
\* with the view as it then is
noteRefusal(w, k) ==
    IF w.ret = "false" THEN [w EXCEPT !.log = Append(@, Refused(k, w.views[k]))]
    ELSE w

\* the outer view offers a node to view k: update(node)
offer(w, k, node) == noteRefusal(update(w, k, node), k)

\* the views whose whole node the transaction replaced by an image: the node
\* the outer view finds in their place
Replaced(doc, steps, vs) ==
    {k \in 1..Len(vs) :
        /\ Len(steps) = 1
        /\ steps[1].from = PosOf(doc, k)
        /\ steps[1].to = PosOf(doc, k) + nodeSize(NodeAt(doc, PosOf(doc, k)))
        /\ steps[1].slice = <<"IMG">>}

\* the outer view redraws the place of a replaced node: the view that was
\* there is offered the image first
RECURSIVE offerReplaced(_, _)
offerReplaced(w, ks) ==
    IF ks = {} \/ w.threw THEN w
    ELSE LET k == CHOOSE x \in ks : \A y \in ks : x <= y
         IN  offerReplaced(offer(w, k, Node("image", <<>>)), ks \ {k})

\* the outer view destroys the views whose node the steps removed from doc
destroyViews(w, doc, steps) ==
    [w EXCEPT !.views = Survivors(doc, steps, @)]

\* variant of construct: the first selection is set at the end of the content
constructAtEnd(w, k, node) ==
    LET view == View(node, node, Sel(0, 0))
        w1 == [w EXCEPT !.views = SubSeq(@, 1, k - 1) \o <<view>>
                                    \o SubSeq(@, k, Len(@)),
                        !.log = Append(@, Ev("create", k, <<>>, FALSE, <<>>))]
    IN  dispatchInner(w1, k, Tr(<<>>, Sel(Len(node.content), Len(node.content)),
                                FALSE, FALSE))

\* new LiquidView(node, view, getPos), put at index k of the views
construct(w, k, node) ==
    LET view == View(node, node, Sel(0, 0))
        w1 == [w EXCEPT !.views = SubSeq(@, 1, k - 1) \o <<view>>
                                    \o SubSeq(@, k, Len(@)),
                        !.log = Append(@, Ev("create", k, <<>>, FALSE, <<>>))]
    IN  dispatchInner(w1, k, Tr(<<>>, Sel(0, 0), FALSE, FALSE))

\* the outer view brings the node views from index k on up to date with the
\* new document: a view whose node changed gets update(node); when update
\* refuses, the view is destroyed and a new one constructed
updateViews(w, k) ==
    IF w.threw \/ k > Len(w.views) \/ k > NumLiquid(w.outerDoc) THEN w
    ELSE LET node == NodeAt(w.outerDoc, PosOf(w.outerDoc, k))
         IN  IF node = w.views[k].node THEN updateViews(w, k + 1)
             ELSE LET w1 == offer(w, k, node)
                  IN  IF w1.ret = "false"
                      THEN updateViews(
                             construct([w1 EXCEPT !.views = SubSeq(@, 1, k - 1)
                                                     \o SubSeq(@, k + 1, Len(@))],
                                       k, node), k + 1)
                      ELSE updateViews(w1, k + 1)

\* outerView.dispatch(tr): the new outer state, then the node views
outerDispatch(w, tr) ==
    LET applied == ApplySteps(w.outerDoc, tr.steps, TRUE)
    IN  IF ~applied.ok \/ w.dispatches >= MaxChain THEN [w EXCEPT !.threw = TRUE]
        ELSE updateViews(
               destroyViews(
                 offerReplaced(
                   [w EXCEPT !.outerDoc = applied.doc,
                             !.outerSel = TrSelection(tr, w.outerSel),
                             !.log = Append(@, Ev("outer", 0, tr.steps, tr.scroll, <<>>)),
                             !.dispatches = @ + 1],
                   Replaced(w.outerDoc, tr.steps, w.views)),
                 w.outerDoc, tr.steps),
               1)

\* LiquidView.setSelection(from, to)
setSelection(w, k, from, to) ==
    dispatchInner(w, k, Tr(<<>>, Sel(from, to), FALSE, FALSE))

\* LiquidView.selectNode()
selectNode(w, k) == setSelection(w, k, 0, 0)

\* variant of maybeEscape: a range selection that touches the edge escapes too
maybeEscapeFromRange(w, k, dir) ==
    LET view == w.views[k]
        selection == view.sel
        isOnEdge == IF dir < 0 THEN SelFrom(selection) = 0
                    ELSE SelTo(selection) = length(view)
    IN  IF ~isOnEdge THEN [w EXCEPT !.ret = "false"]
        ELSE LET targetPos == getPos(w, k) + (IF dir < 0 THEN 0 ELSE nodeSize(view.node))
                 w1 == outerDispatch(w, Tr(<<>>, Sel(targetPos, targetPos), FALSE, FALSE))
             IN  IF w1.threw THEN w1 ELSE [w1 EXCEPT !.ret = "true"]

\* variant of maybeEscape: the right edge is taken to be at nodeSize
maybeEscapeEdgeAtNodeSize(w, k, dir) ==
    LET view == w.views[k]
        selection == view.sel
        isOnEdge == IF dir < 0 THEN SelFrom(selection) = 0
                    ELSE SelTo(selection) = nodeSize(view.node)
    IN  IF ~SelEmpty(selection) \/ ~isOnEdge THEN [w EXCEPT !.ret = "false"]
        ELSE LET targetPos == getPos(w, k) + (IF dir < 0 THEN 0 ELSE nodeSize(view.node))
                 w1 == outerDispatch(w, Tr(<<>>, Sel(targetPos, targetPos), FALSE, FALSE))
             IN  IF w1.threw THEN w1 ELSE [w1 EXCEPT !.ret = "true"]

\* LiquidView.maybeEscape(dir)
maybeEscape(w, k, dir) ==
    LET view == w.views[k]
        selection == view.sel
        isOnEdge == IF dir < 0 THEN SelFrom(selection) = 0
                    ELSE SelTo(selection) = length(view)
    IN  IF ~SelEmpty(selection) \/ ~isOnEdge THEN [w EXCEPT !.ret = "false"]
        ELSE LET targetPos == getPos(w, k) + (IF dir < 0 THEN 0 ELSE nodeSize(view.node))
                 w1 == outerDispatch(w, Tr(<<>>, Sel(targetPos, targetPos), FALSE, FALSE))
             IN  IF w1.threw THEN w1 ELSE [w1 EXCEPT !.ret = "true"]

\* variant of maybeRemove: the deleted range ends at from + length, not at
\* from + nodeSize
maybeRemoveContentOnly(w, k) ==
    LET view == w.views[k]
    IN  IF length(view) = 0
        THEN LET from == getPos(w, k)
                 to == from + length(view)
                 w1 == outerDispatch(w, Tr(TrReplace(from, to, <<>>), Sel(from, to),
                                           FALSE, TRUE))
             IN  IF w1.threw THEN w1 ELSE [w1 EXCEPT !.ret = "true"]
        ELSE [w EXCEPT !.ret = "undefined"]

\* variant of maybeRemove: the length of the content is not looked at
maybeRemoveAlways(w, k) ==
    LET view == w.views[k]
        from == getPos(w, k)
        to == from + nodeSize(view.node)
        w1 == outerDispatch(w, Tr(TrReplace(from, to, <<>>), Sel(from, to),
                                  FALSE, TRUE))
    IN  IF w1.threw THEN w1 ELSE [w1 EXCEPT !.ret = "true"]

\* LiquidView.maybeRemove()
maybeRemove(w, k) ==
    LET view == w.views[k]
    IN  IF length(view) = 0
        THEN LET from == getPos(w, k)
                 to == from + nodeSize(view.node)
                 w1 == outerDispatch(w, Tr(TrReplace(from, to, <<>>), Sel(from, to),
                                           FALSE, TRUE))
             IN  IF w1.threw THEN w1 ELSE [w1 EXCEPT !.ret = "true"]
        ELSE [w EXCEPT !.ret = "undefined"]

(* ---- the arrow commands of the outer editor ---- *)
\* $head.nodeAfter / $head.nodeBefore: the kind of node next to a position
\* inside its parent, "none" at the parent's end / start
nodeAfter(doc, pos) ==
    IF pos >= Len(doc) THEN "none"
    ELSE LET t == doc[pos + 1]
         IN  IF t \in Chars THEN "text"
             ELSE IF t = "L(" THEN LiquidType
             ELSE IF t = "IMG" THEN "image"
             ELSE IF t = "P(" THEN "paragraph"
             ELSE IF t = "HR" THEN "horizontal_rule"
             ELSE "none"

nodeBefore(doc, pos) ==
    IF pos <= 0 THEN "none"
    ELSE LET t == doc[pos]
         IN  IF t \in Chars THEN "text"
             ELSE IF t = ")L" THEN LiquidType
             ELSE IF t = "IMG" THEN "image"
             ELSE IF t = ")P" THEN "paragraph"
             ELSE IF t = "HR" THEN "horizontal_rule"
             ELSE "none"

isText(kind) == kind = "text"
\* variant of isInline: the check is not made
isInlineUnchecked(kind) == TRUE

isInline(kind) == kind \in {"text", "image", LiquidType}

\* whether the parent of a position has inline content: inside the paragraph
\* or inside a liquid node; the document node itself holds blocks
inlineContent(doc, pos) == 1 <= pos /\ pos <= Len(doc) - 2

\* isNearInlineBlock(state, side)
isNearInlineBlock(doc, sel, side) ==
    IF side >= 0
    THEN /\ nodeAfter(doc, sel.head) # "none"
         /\ ~isText(nodeAfter(doc, sel.head))
         /\ isInline(nodeAfter(doc, sel.head))
    ELSE /\ nodeBefore(doc, sel.head) # "none"
         /\ ~isText(nodeBefore(doc, sel.head))
         /\ isInline(nodeBefore(doc, sel.head))

\* Selection.findFrom($pos, dir, true): a caret at $pos when its parent has
\* inline content; from a position between blocks the search for a textblock
\* is not followed here and yields no selection
findFrom(doc, pos, dir) ==
    IF inlineContent(doc, pos) THEN Sel(pos, pos) ELSE NoSel

\* variant of Side: only 'left' moves backward
SideLeftOnly(dir) == IF dir = "left" THEN -1 ELSE 1

\* let side = dir == 'left' || dir == 'up' ? -1 : 1
Side(dir) == IF dir \in {"left", "up"} THEN -1 ELSE 1

\* the command arrowHandler(dir) returns, run with the outer view's dispatch
arrowHandler(w, dir) ==
    LET selection == w.outerSel
        side == Side(dir)
    IN  IF SelEmpty(selection) /\ isNearInlineBlock(w.outerDoc, selection, side)
        THEN LET targetPos == selection.head + side
                 newSelection == findFrom(w.outerDoc, targetPos, side)
                 w1 == IF newSelection = NoSel THEN [w EXCEPT !.threw = TRUE]
                       ELSE outerDispatch(w, Tr(<<>>, newSelection, FALSE, TRUE))
             IN  IF w1.threw THEN w1 ELSE [w1 EXCEPT !.ret = "true"]
        ELSE [w EXCEPT !.ret = "false"]

(* ---- initial state ---- *)
\* the documents the editor may be opened on: a paragraph that holds an image
\* and a liquid node, or two liquid nodes, and a rule after it
InitDocs ==
    {<<"P(", "IMG", "L(">> \o c \o <<")L", ")P", "HR">> :
        c \in Strings(InnerChars, MaxInner)}
      \cup {doc \in {<<"P(", "L(">> \o cd[1] \o <<")L", "L(">> \o cd[2]
                        \o <<")L", ")P", "HR">> :
                        cd \in Strings(InnerChars, MaxInner)
                                  \X Strings(InnerChars, MaxInner)} :
               Len(doc) <= MaxDoc}

\* the outer view renders the document: one LiquidView per liquid node
RECURSIVE constructAll(_, _)
constructAll(w, k) ==
    IF k > NumLiquid(w.outerDoc) THEN w
    ELSE constructAll(construct(w, k, NodeAt(w.outerDoc, PosOf(w.outerDoc, k))), k + 1)

\* the observation of one handler call
Last(op, k, dir, key, w) ==
    [op |-> op, k |-> k, dir |-> dir, key |-> key,
     ret |-> w.ret, log |-> w.log, threw |-> w.threw]

\* EditorState.create puts the selection at the start of the first textblock
Init ==
    \E doc \in InitDocs :
        LET w == constructAll(World(doc, Sel(1, 1), <<>>), 1)
        IN  /\ outerDoc = w.outerDoc
            /\ outerSel = w.outerSel
            /\ views = w.views
            /\ last = Last("init", 0, 0, "", w)

(* ---- actions: one per handler or user input ---- *)
Here == World(outerDoc, outerSel, views)

\* no handler is running and the result of the last one has been consumed
Idle == Last("idle", 0, 0, "", Here)

\* handlers are entered from the event loop only
Ready == last.op = "idle"

\* a handler runs to completion
Commit(w, op, k, dir, key) ==
    /\ outerDoc' = w.outerDoc
    /\ outerSel' = w.outerSel
    /\ views' = w.views
    /\ last' = Last(op, k, dir, key, w)

\* the steps of an edit typed into an inner editor whose content is c:
\* insert a character, or delete one
InnerSteps(c) ==
    {Step(f, f, <<ch>>) : f \in 0..Len(c), ch \in InnerChars}
        \cup {Step(f, f + 1, <<>>) : f \in 0..(Len(c) - 1)}

\* the inner transactions: one such step, or two steps of which the second
\* is placed by the first (a character replaced, two characters typed)
InnerTrs(c) ==
    {<<s>> : s \in InnerSteps(c)}
        \cup {<<Step(f, f + 1, <<>>), Step(f, f, <<ch>>)>> :
                 f \in 0..(Len(c) - 1), ch \in InnerChars}
        \cup {<<Step(f, f, <<"a">>), Step(f + 1, f + 1, <<"b">>)>> : f \in 0..Len(c)}

\* the user edits inside inner editor k: innerView.dispatch(tr)
InnerEdit(k) ==
    /\ Ready
    /\ k \in 1..Len(views)
    /\ \E steps \in InnerTrs(views[k].doc.content) :
          LET c == ApplySteps(views[k].doc.content, steps, FALSE).doc
          IN  /\ Len(c) <= MaxInner
              /\ Len(outerDoc) + Len(c) - Len(views[k].doc.content) <= MaxDoc
              /\ Commit(dispatchInner(Here, k, Tr(steps, NoSel, FALSE, FALSE)),
                        "innerEdit", k, 0, "")

\* the user selects inside inner editor k
SetSelection(k) ==
    /\ Ready
    /\ k \in 1..Len(views)
    /\ \E from \in 0..Len(views[k].doc.content) :
       \E to \in from..Len(views[k].doc.content) :
          Commit(setSelection(Here, k, from, to), "setSelection", k, 0, "")

\* the outer view selects the node as a unit
SelectNode(k) ==
    /\ Ready
    /\ k \in 1..Len(views)
    /\ Commit(selectNode(Here, k), "selectNode", k, 0, "")

\* ArrowLeft / ArrowRight in inner editor k
MaybeEscape(k, dir) ==
    /\ Ready
    /\ k \in 1..Len(views)
    /\ Commit(maybeEscape(Here, k, dir), "maybeEscape", k, dir, "")

\* Backspace / Delete in inner editor k
MaybeRemove(k) ==
    /\ Ready
    /\ k \in 1..Len(views)
    /\ Commit(maybeRemove(Here, k), "maybeRemove", k, 0, "")

\* an arrow key in the outer editor
ArrowHandler(key) ==
    /\ Ready
    /\ Commit(arrowHandler(Here, key), "arrowHandler", 0, Side(key), key)

\* an outer transaction replaces the content of the k-th liquid node (undo,
\* redo, or any edit made on the outer document)
OuterEditNode(k) ==
    /\ Ready
    /\ k \in 1..Len(views)
    /\ \E c \in Strings(InnerChars, MaxInner) :
          LET p == PosOf(outerDoc, k)
              old == NodeAt(outerDoc, p).content
          IN  /\ c # old
              /\ Len(outerDoc) + Len(c) - Len(old) <= MaxDoc
              /\ Commit(outerDispatch(Here,
                            Tr(TrReplace(p + 1, p + 1 + Len(old), c), NoSel, FALSE, FALSE)),
                        "outerEditNode", k, 0, "")

\* an outer transaction puts an image in the place of the k-th liquid node
\* (the image is inserted over the selected node)
OuterReplaceNode(k) ==
    /\ Ready
    /\ k \in 1..Len(views)
    /\ LET p == PosOf(outerDoc, k)
           to == p + nodeSize(NodeAt(outerDoc, p))
       IN  Commit(outerDispatch(Here, Tr(TrReplace(p, to, <<"IMG">>), NoSel, FALSE, FALSE)),
                  "outerReplaceNode", k, 0, "")

\* positions of the paragraph that lie outside every liquid node
TextPositions(doc) == {p \in 1..(Len(doc) - 2) : Depth(doc, p) = 0}

\* the user types or deletes a character of paragraph text
OuterEditText ==
    /\ Ready
    /\ \E p \in TextPositions(outerDoc) :
           \/ /\ TextOutside(outerDoc) < MaxText
              /\ Len(outerDoc) < MaxDoc
              /\ \E ch \in OuterChars :
                    Commit(outerDispatch(Here, Tr(TrReplace(p, p, <<ch>>), NoSel, FALSE, FALSE)),
                           "outerEditText", 0, 0, "")
           \/ /\ outerDoc[p + 1] \in OuterChars
              /\ Commit(outerDispatch(Here, Tr(TrReplace(p, p + 1, <<>>), NoSel, FALSE, FALSE)),
                        "outerEditText", 0, 0, "")

\* the selections a user makes in the outer editor: a caret in the paragraph,
\* the gap cursor after the rule, or the range over one character, one image
\* or one liquid node
OuterSelections(doc) ==
    {Sel(p, p) : p \in TextPositions(doc) \cup {Len(doc)}}
        \cup {Sel(pq[1], pq[2]) :
                 pq \in {r \in TextPositions(doc) \X TextPositions(doc) :
                           /\ r[1] < r[2]
                           /\ \A t \in TextPositions(doc) : ~(r[1] < t /\ t < r[2])}}

OuterSelect ==
    /\ Ready
    /\ \E sel \in OuterSelections(outerDoc) :
          Commit(outerDispatch(Here, Tr(<<>>, sel, FALSE, FALSE)), "outerSelect", 0, 0, "")

\* the caller (the keymap, the view) takes the handler's result and control
\* goes back to the event loop
Return ==
    /\ ~Ready
    /\ last' = Idle
    /\ UNCHANGED <<outerDoc, outerSel, views>>

Next ==
    \/ \E k \in 1..2 : InnerEdit(k)
    \/ \E k \in 1..2 : SetSelection(k)
    \/ \E k \in 1..2 : SelectNode(k)
    \/ \E k \in 1..2, dir \in {-1, 1} : MaybeEscape(k, dir)
    \/ \E k \in 1..2 : MaybeRemove(k)
    \/ \E key \in {"left", "right", "up", "down"} : ArrowHandler(key)
    \/ \E k \in 1..2 : OuterEditNode(k)
    \/ \E k \in 1..2 : OuterReplaceNode(k)
    \/ OuterEditText
    \/ OuterSelect
    \/ Return

Spec == Init /\ [][Next]_vars

TypeOK ==
    /\ WellFormed(outerDoc)
    /\ Len(views) = NumLiquid(outerDoc)
    /\ ~last.threw

(* ---- reading the call log ---- *)
OuterEvents(log) == SelectSeq(log, LAMBDA e : e.kind = "outer")
InnerEvents(log) == SelectSeq(log, LAMBDA e : e.kind = "inner")
UpdateEvents(log) == SelectSeq(log, LAMBDA e : e.kind = "update")
RefusedEvents(log) == SelectSeq(log, LAMBDA e : e.kind = "refused")

\* the content of the k-th liquid node of a document
ContentOf(doc, k) == NodeAt(doc, PosOf(doc, k)).content

\* a step moved right by n positions
Shifted(s, n) == Step(s.from + n, s.to + n, s.slice)

(* ---- C1 ---- *)
\* C1: between handler calls, whatever inner edits, outer edits of a node's
\* content and selection changes came before, every view's inner document,
\* its bound node and the liquid node found at getPos() in the outer document
\* have the same content.
C1_ContentInSync ==
    /\ Len(views) = NumLiquid(outerDoc)
    /\ \A k \in 1..Len(views) :
          /\ views[k].doc.content = views[k].node.content
          /\ views[k].node.content = ContentOf(outerDoc, k)

\* an inner edit went out to the outer document and came back through update,
\* on a node that does not start the paragraph and is not empty
C1_Witness ==
    /\ last.op = "innerEdit"
    /\ Len(OuterEvents(last.log)) = 1
    /\ Len(UpdateEvents(last.log)) = 1
    /\ PosOf(outerDoc, last.k) > 1
    /\ Len(views[last.k].doc.content) = 2

(* ---- C2 ---- *)
\* C2: when an outer edit gives a liquid node the content A while the inner
\* document holds B, update computes start, endA, endB such that replacing
\* B's range [start, endB) by A's slice [start, endA) yields A, and the inner
\* document is A when update has returned.
C2_UpdateYieldsNewContent ==
    [][last'.op = "outerEditNode" =>
         LET k == last'.k
             A == ContentOf(outerDoc', k)
             B == views[k].doc.content
             ups == UpdateEvents(last'.log)
         IN  /\ Len(ups) = 1
             /\ ups[1].k = k
             /\ Len(ups[1].diff) = 3
             /\ LET start == ups[1].diff[1]
                    endA == ups[1].diff[2]
                    endB == ups[1].diff[3]
                IN  Slice(B, 0, start) \o Slice(A, start, endA)
                        \o Slice(B, endB, Len(B)) = A
             /\ views'[k].doc.content = A
             /\ last'.ret = "true"]_vars

\* the inner "ab" was synced to "ba": no common prefix or suffix
C2_Witness ==
    /\ last.op = "outerEditNode"
    /\ views[last.k].doc.content = <<"b", "a">>
    /\ UpdateEvents(last.log)[1].diff = <<0, 2, 2>>

(* ---- C3 ---- *)
\* C3: an inner edit is applied to the outer document step by step, each step
\* over inner [f, t) as a step over [f + getPos() + 1, t + getPos() + 1) with
\* the same inserted content.
C3_PropagatedAtOffset ==
    [][last'.op = "innerEdit" =>
         LET k == last'.k
             steps == InnerEvents(last'.log)[1].steps
             off == PosOf(outerDoc, k) + 1
             moved == [j \in 1..Len(steps) |-> Shifted(steps[j], off)]
         IN  /\ Len(steps) > 0
             /\ Len(OuterEvents(last'.log)) = 1
             /\ OuterEvents(last'.log)[1].steps = moved
             /\ outerDoc' = ApplySteps(outerDoc, moved, TRUE).doc
             /\ ContentOf(outerDoc', k) = views'[k].doc.content]_vars

\* two characters typed at the start of a node that follows an image
C3_Witness ==
    /\ last.op = "innerEdit"
    /\ Len(InnerEvents(last.log)[1].steps) = 2
    /\ InnerEvents(last.log)[1].steps[1].from = 0
    /\ PosOf(outerDoc, last.k) = 2
    /\ OuterEvents(last.log)[1].steps[1].from = 3

(* ---- C4 ---- *)
\* C4: an outer edit of a node's content reaches the inner editor through
\* update as a transaction tagged fromOutside, and nothing is dispatched on
\* the outer editor in return: the only outer dispatch of the call is the
\* edit itself.
C4_NoBounce ==
    last.op = "outerEditNode" =>
        /\ last.log[1].kind = "outer"
        /\ Len(OuterEvents(last.log)) = 1
        /\ \A i \in 1..Len(last.log) :
              last.log[i].kind = "inner" => last.log[i].flag

\* an outer edit whose update dispatched a changing inner transaction
C4_Witness ==
    /\ last.op = "outerEditNode"
    /\ Len(InnerEvents(last.log)) = 1
    /\ InnerEvents(last.log)[1].flag
    /\ Len(InnerEvents(last.log)[1].steps) = 1

(* ---- C5 ---- *)
\* C5: maybeEscape(dir) with a collapsed inner caret on the matching edge (at
\* 0 for dir -1, at the end of the inner content for dir +1) is handled and
\* sets the outer selection to a caret at getPos() for dir -1, at
\* getPos() + nodeSize for dir +1.
C5_EscapeTarget ==
    [][(/\ last'.op = "maybeEscape"
        /\ SelEmpty(views[last'.k].sel)
        /\ views[last'.k].sel.head =
              (IF last'.dir = -1 THEN 0 ELSE Len(views[last'.k].doc.content)))
       =>
         LET p == PosOf(outerDoc, last'.k)
             size == Len(ContentOf(outerDoc, last'.k)) + 2
             target == IF last'.dir = -1 THEN p ELSE p + size
         IN  /\ last'.ret = "true"
             /\ outerSel' = Sel(target, target)]_vars

\* escaped to the right of a node of content length 2 that follows an image
C5_Witness ==
    /\ last.op = "maybeEscape"
    /\ last.dir = 1
    /\ last.ret = "true"
    /\ views[last.k].sel = Sel(2, 2)
    /\ PosOf(outerDoc, last.k) = 2
    /\ outerSel = Sel(6, 6)

(* ---- C6 ---- *)
\* C6: maybeEscape(dir) with a non-empty inner selection, or with a caret that
\* is not on the edge matching dir, is not handled and changes nothing: no
\* outer dispatch, and both editors' documents and selections stay as they were.
C6_NoEscape ==
    [][(/\ last'.op = "maybeEscape"
        /\ \/ ~SelEmpty(views[last'.k].sel)
           \/ views[last'.k].sel.head #
                 (IF last'.dir = -1 THEN 0 ELSE Len(views[last'.k].doc.content)))
       =>
         /\ last'.ret = "false"
         /\ last'.log = <<>>
         /\ UNCHANGED <<outerDoc, outerSel, views>>]_vars

\* ArrowLeft with the inner range [0, 1) selected: it touches the left edge
C6_Witness ==
    /\ last.op = "maybeEscape"
    /\ last.dir = -1
    /\ last.ret = "false"
    /\ views[last.k].sel = Sel(0, 1)

(* ---- C7 ---- *)
\* C7: maybeRemove on a view whose inner content is empty is handled and
\* dispatches one outer transaction, which deletes exactly the node's range
\* [getPos(), getPos() + nodeSize) and leaves the rest of the outer document
\* as it was.
C7_RemoveEmptyNode ==
    [][(/\ last'.op = "maybeRemove"
        /\ Len(views[last'.k].doc.content) = 0)
       =>
         LET p == PosOf(outerDoc, last'.k)
             size == Len(ContentOf(outerDoc, last'.k)) + 2
         IN  /\ last'.ret = "true"
             /\ Len(OuterEvents(last'.log)) = 1
             /\ OuterEvents(last'.log)[1].steps = <<Step(p, p + size, <<>>)>>
             /\ outerDoc' = SubSeq(outerDoc, 1, p)
                              \o SubSeq(outerDoc, p + size + 1, Len(outerDoc))
             /\ Len(outerDoc') = Len(outerDoc) - 2]_vars

\* an empty node in the middle of the paragraph was removed and another stays
C7_Witness ==
    /\ last.op = "maybeRemove"
    /\ last.ret = "true"
    /\ OuterEvents(last.log)[1].steps[1].from > 1
    /\ Len(views) = 1

(* ---- C8 ---- *)
\* C8: when update finds the new node content A different from the inner
\* content B, the offsets it replaces with, after the overlap correction,
\* satisfy start <= endA <= size(A) and start <= endB <= size(B).
C8_DiffOffsetsWellFormed ==
    [][\A i \in 1..Len(last'.log) :
          (last'.log[i].kind = "update" /\ last'.log[i].diff # <<>>) =>
              LET k == last'.log[i].k
                  A == views'[k].node.content
                  B == views[k].doc.content
                  start == last'.log[i].diff[1]
                  endA == last'.log[i].diff[2]
                  endB == last'.log[i].diff[3]
              IN  /\ last'.op = "outerEditNode"
                  /\ A # B
                  /\ 0 <= start
                  /\ start <= endA /\ endA <= Len(A)
                  /\ start <= endB /\ endB <= Len(B)]_vars

\* the inner "aa" synced to "aaa": the forward and backward scans overlap
C8_Witness ==
    /\ last.op = "outerEditNode"
    /\ views[last.k].node.content = <<"a", "a", "a">>
    /\ UpdateEvents(last.log)[1].diff = <<2, 3, 2>>

(* ---- C9 ---- *)
\* C9: an arrow command (side -1 for left and up, +1 for right and down) run
\* on a collapsed outer selection with an inline node that is not text (a
\* liquid node, an image) right next to the caret on that side is handled: it dispatches one transaction that asks to scroll
\* into view and sets the outer selection to the one found from head + side.
C9_ArrowStepsOver ==
    [][(/\ last'.op = "arrowHandler"
        /\ outerSel.anchor = outerSel.head
        /\ LET side == IF last'.key \in {"left", "up"} THEN -1 ELSE 1
           IN  IF side = 1
               THEN /\ outerSel.head < Len(outerDoc)
                    /\ outerDoc[outerSel.head + 1] \in {"L(", "IMG"}
               ELSE /\ outerSel.head > 0
                    /\ outerDoc[outerSel.head] \in {")L", "IMG"})
       =>
         LET side == IF last'.key \in {"left", "up"} THEN -1 ELSE 1
             target == outerSel.head + side
         IN  /\ last'.ret = "true"
             /\ outerSel' = Sel(target, target)
             /\ outerDoc' = outerDoc
             /\ Len(last'.log) = 1
             /\ last'.log[1].kind = "outer"
             /\ last'.log[1].flag]_vars

\* ArrowUp with the caret right after a liquid node
C9_Witness ==
    /\ last.op = "arrowHandler"
    /\ last.key = "up"
    /\ last.ret = "true"
    /\ outerDoc[outerSel.head + 1] = ")L"

(* ---- C10 ---- *)
\* C10: an arrow command run on a non-collapsed outer selection, or with no
\* node, a text node or a node that is not inline next to the caret on the
\* side it moves to, is not handled: nothing is dispatched and the outer
\* selection and document stay as they were.
C10_ArrowNotHandled ==
    [][(/\ last'.op = "arrowHandler"
        /\ LET side == IF last'.key \in {"left", "up"} THEN -1 ELSE 1
               h == outerSel.head
           IN  \/ outerSel.anchor # outerSel.head
               \/ side = 1 /\ (h >= Len(outerDoc) \/ outerDoc[h + 1] \notin {"L(", "IMG"})
               \/ side = -1 /\ (h <= 0 \/ outerDoc[h] \notin {")L", "IMG"}))
       =>
         /\ last'.ret = "false"
         /\ last'.log = <<>>
         /\ UNCHANGED <<outerDoc, outerSel, views>>]_vars

\* ArrowLeft at the gap cursor after the horizontal rule: the node before the
\* caret is a block
C10_Witness ==
    /\ last.op = "arrowHandler"
    /\ last.key = "left"
    /\ last.ret = "false"
    /\ outerSel = Sel(Len(outerDoc), Len(outerDoc))

(* ---- C11 ---- *)
\* C11: when the outer view offers a view a node whose markup differs from
\* that of the bound node (an image put in the node's place), update returns
\* false and leaves the view as it was: this.node is not rebound, no inner
\* transaction is dispatched, and the inner document and selection are the same.
C11_UpdateRefusesOtherMarkup ==
    [][last'.op = "outerReplaceNode" =>
         LET k == last'.k
             rs == RefusedEvents(last'.log)
         IN  /\ Len(rs) = 1
             /\ rs[1].k = k
             /\ rs[1].view = views[k]
             /\ InnerEvents(last'.log) = <<>>
             /\ UpdateEvents(last'.log) = <<>>
             /\ Len(OuterEvents(last'.log)) = 1]_vars

\* an image replaced a node whose inner editor held "ab" with the range
\* [0, 1) selected
C11_Witness ==
    /\ last.op = "outerReplaceNode"
    /\ Len(RefusedEvents(last.log)) = 1
    /\ RefusedEvents(last.log)[1].view.doc.content = <<"a", "b">>
    /\ RefusedEvents(last.log)[1].view.sel = Sel(0, 1)

(* ---- C12 ---- *)
\* C12: an inner edit that dispatchInner sends out does not come back: the
\* update the outer dispatch makes on the same view finds no difference in
\* content, so the call makes the one inner transaction of the edit, one
\* outer dispatch and nothing after the update.
C12_NoRetrigger ==
    last.op = "innerEdit" =>
        /\ Len(last.log) \in {2, 3}
        /\ last.log[1].kind = "inner"
        /\ last.log[1].k = last.k
        /\ ~last.log[1].flag
        /\ last.log[2].kind = "outer"
        /\ Len(last.log) = 3 => last.log[3] = Ev("update", last.k, <<>>, FALSE, <<>>)

\* an inner edit of the second of two nodes came back as an update that found
\* nothing to change
C12_Witness ==
    /\ last.op = "innerEdit"
    /\ last.k = 2
    /\ Len(last.log) = 3
    /\ last.log[3].kind = "update"
    /\ last.log[3].diff = <<>>

(* ---- C13 ---- *)
\* C13: the outer transaction built by one dispatchInner call holds one step
\* for each step of the inner transaction, in the same order: its j-th step
\* is the j-th inner step moved to the node's content, none left out, none
\* twice.
C13_StepsInOrder ==
    last.op = "innerEdit" =>
        LET inner == InnerEvents(last.log)
            outer == OuterEvents(last.log)
            off == PosOf(outerDoc, last.k) + 1
        IN  /\ Len(inner) = 1
            /\ Len(outer) = 1
            /\ Len(outer[1].steps) = Len(inner[1].steps)
            /\ \A j \in 1..Len(inner[1].steps) :
                  outer[1].steps[j] = Shifted(inner[1].steps[j], off)

\* a character was replaced: the deletion first, then the insertion
C13_Witness ==
    /\ last.op = "innerEdit"
    /\ Len(OuterEvents(last.log)) = 1
    /\ Len(OuterEvents(last.log)[1].steps) = 2
    /\ OuterEvents(last.log)[1].steps[1].slice = <<>>
    /\ OuterEvents(last.log)[1].steps[2].slice = <<"b">>

(* ---- C14 ---- *)
\* C14: every inner edit and every outer edit runs to completion: the chain
\* of calls it starts ends without a failed step, after at most one outer
\* dispatch and at most one inner transaction that changes the inner document.
C14_ChainCompletes ==
    last.op \in {"innerEdit", "outerEditNode", "outerEditText", "outerReplaceNode"} =>
        /\ ~last.threw
        /\ Len(OuterEvents(last.log)) = 1
        /\ Cardinality({i \in 1..Len(last.log) :
                           /\ last.log[i].kind = "inner"
                           /\ last.log[i].steps # <<>>}) <= 1

\* an outer edit of a node's content ended after one outer dispatch and one
\* inner transaction
C14_Witness ==
    /\ last.op = "outerEditNode"
    /\ ~last.threw
    /\ Len(last.log) = 3
    /\ last.log[3].kind = "inner"
    /\ last.log[3].steps # <<>>

(* ---- C15 ---- *)
\* C15: an inner transaction without steps (setSelection, selectNode) is
\* applied to the inner state and goes no further: the outer transaction
\* built from it does not change the document, so nothing is dispatched on
\* the outer editor and the outer document and selection stay as they were.
C15_NoStepsNoOuterDispatch ==
    [][last'.op \in {"setSelection", "selectNode"} =>
         LET k == last'.k
         IN  /\ last'.log = <<Ev("inner", k, <<>>, FALSE, <<>>)>>
             /\ UNCHANGED <<outerDoc, outerSel>>
             /\ ~last'.threw
             /\ views'[k].node = views[k].node
             /\ views'[k].doc = views[k].doc
             /\ \A j \in 1..Len(views) : j # k => views'[j] = views[j]
             /\ last'.op = "selectNode" => views'[k].sel = Sel(0, 0)]_vars

\* setSelection put the inner selection over [1, 2) while the outer caret
\* stood after the horizontal rule
C15_Witness ==
    /\ last.op = "setSelection"
    /\ views[last.k].sel = Sel(1, 2)
    /\ outerSel = Sel(Len(outerDoc), Len(outerDoc))

(* ---- C16 ---- *)
\* C16: every update with a node of the same markup returns true and leaves
\* this.node bound to the node now in the outer document; when the node's
\* content equals the inner content, update dispatches no inner transaction:
\* it is the last call made, and the inner document and selection are those
\* the inner edit before it had produced.
C16_UpdateSameMarkup ==
    [][\A i \in 1..Len(last'.log) :
          last'.log[i].kind = "update" =>
              LET k == last'.log[i].k
              IN  /\ last'.ret = "true"
                  /\ views'[k].node = NodeAt(outerDoc', PosOf(outerDoc', k))
                  /\ last'.log[i].diff = <<>> =>
                        /\ i = Len(last'.log)
                        /\ last'.op = "innerEdit"
                        /\ LET steps == InnerEvents(last'.log)[1].steps
                           IN  /\ views'[k].doc.content =
                                     ApplySteps(views[k].doc.content, steps, FALSE).doc
                               /\ views'[k].sel = MapSel(views[k].sel, steps)]_vars

\* an update that found nothing to change, after a character was typed before
\* the inner caret
C16_Witness ==
    /\ last.op = "innerEdit"
    /\ last.log[Len(last.log)] = Ev("update", last.k, <<>>, FALSE, <<>>)
    /\ views[last.k].sel = Sel(2, 2)
    /\ views[last.k].node.content = <<"a", "b">>

(* ---- C17 ---- *)
\* C17: maybeRemove on a view whose inner content is not empty does nothing:
\* it returns undefined (not handled), dispatches nothing, and leaves the
\* outer document and selection and every inner state as they were.
C17_RemoveNotHandled ==
    [][(/\ last'.op = "maybeRemove"
        /\ Len(views[last'.k].doc.content) > 0)
       =>
         /\ last'.ret = "undefined"
         /\ last'.log = <<>>
         /\ ~last'.threw
         /\ UNCHANGED <<outerDoc, outerSel, views>>]_vars

\* Backspace in a node that holds one character, next to an empty node
C17_Witness ==
    /\ last.op = "maybeRemove"
    /\ last.ret = "undefined"
    /\ Len(views) = 2
    /\ Len(views[last.k].doc.content) = 1
    /\ Len(views[3 - last.k].doc.content) = 0

(* ---- C18 ---- *)
\* C18: when the views of a document have been constructed, each view's
\* inner document has the content of its node and its inner selection is the
\* caret at 0; each construction made one inner transaction without steps
\* and nothing was dispatched on the outer editor.
C18_AfterConstruction ==
    last.op = "init" =>
        /\ ~last.threw
        /\ Len(views) = NumLiquid(outerDoc)
        /\ \A k \in 1..Len(views) :
              /\ views[k].doc.content = ContentOf(outerDoc, k)
              /\ views[k].sel = Sel(0, 0)
        /\ OuterEvents(last.log) = <<>>
        /\ Len(last.log) = 2 * Len(views)
        /\ \A k \in 1..Len(views) :
              /\ last.log[2 * k - 1] = Ev("create", k, <<>>, FALSE, <<>>)
              /\ last.log[2 * k] = Ev("inner", k, <<>>, FALSE, <<>>)
        /\ outerSel = Sel(1, 1)

\* two views were constructed, one for a node that holds "ba" and one for an
\* empty node
C18_Witness ==
    /\ last.op = "init"
    /\ Len(views) = 2
    /\ views[1].doc.content = <<"b", "a">>
    /\ views[2].doc.content = <<>>
    /\ views[1].sel = Sel(0, 0)

(* ---- C19 ---- *)
\* C19: an inner edit changes the outer document only between the opening
\* and the closing token of the view's node: the document up to and with the
\* opening token and from the closing token on is the same, getPos() is the
\* same, the node is still there (of size 2 when its content became empty),
\* and every other liquid node and every other view is as it was.
C19_EditStaysInNode ==
    [][last'.op = "innerEdit" =>
         LET k == last'.k
             p == PosOf(outerDoc, k)
             size == Len(ContentOf(outerDoc, k)) + 2
             newSize == Len(views'[k].doc.content) + 2
         IN  /\ PosOf(outerDoc', k) = p
             /\ NumLiquid(outerDoc') = NumLiquid(outerDoc)
             /\ Len(views') = Len(views)
             /\ Len(outerDoc') = Len(outerDoc) + newSize - size
             /\ SubSeq(outerDoc', 1, p + 1) = SubSeq(outerDoc, 1, p + 1)
             /\ SubSeq(outerDoc', p + newSize, Len(outerDoc'))
                   = SubSeq(outerDoc, p + size, Len(outerDoc))
             /\ outerDoc'[p + 1] = "L("
             /\ outerDoc'[p + newSize] = ")L"
             /\ Len(ContentOf(outerDoc', k)) = newSize - 2
             /\ \A j \in 1..Len(views) :
                   j # k => /\ views'[j] = views[j]
                            /\ ContentOf(outerDoc', j) = ContentOf(outerDoc, j)]_vars

\* the only character of the second node was deleted; the first node holds
\* a character
C19_Witness ==
    /\ last.op = "innerEdit"
    /\ last.k = 2
    /\ Len(views) = 2
    /\ views[2].doc.content = <<>>
    /\ InnerEvents(last.log)[1].steps = <<Step(0, 1, <<>>)>>
    /\ Len(views[1].doc.content) = 1

(* ---- C20 ---- *)
\* C20: between handler calls, for every view, the two positions maybeEscape
\* can move the outer caret to lie in the outer document: 0 <= getPos() and
\* getPos() + nodeSize <= size of the document; and a view whose inner
\* content is empty has its caret on both edges, so maybeEscape(-1) and
\* maybeEscape(+1) are both handled and put the outer caret at getPos() and
\* at getPos() + 2.
C20_EscapeTargetsInDocument ==
    \A k \in 1..Len(views) :
        LET p == getPos(Here, k)
        IN  /\ 0 <= p
            /\ p + nodeSize(views[k].node) <= Len(outerDoc)
            /\ Len(views[k].doc.content) = 0 =>
                  /\ views[k].sel = Sel(0, 0)
                  /\ \A dir \in {-1, 1} :
                        LET w == maybeEscape(Here, k, dir)
                            target == IF dir < 0 THEN p ELSE p + 2
                        IN  /\ w.ret = "true"
                            /\ ~w.threw
                            /\ w.outerSel = Sel(target, target)

\* ArrowRight in an empty node that another node follows: the outer caret
\* went between the two
C20_Witness ==
    /\ last.op = "maybeEscape"
    /\ last.dir = 1
    /\ last.ret = "true"
    /\ last.k = 1
    /\ Len(views) = 2
    /\ views[1].doc.content = <<>>
    /\ outerSel = Sel(PosOf(outerDoc, 2), PosOf(outerDoc, 2))

====
